---- MODULE Spec2Model ----
(***************************************************************************)
(* Timesheet tracker (times.py): the project and time_entry tables and the *)
(* request handlers of /api/projects and /api/entries.                     *)
(*                                                                         *)
(* Text is a sequence of one-character strings, so that str.strip() and    *)
(* int() are computed and not assumed.  A request body is a record of JSON *)
(* values.  The POST handlers read a key with data.get(), so an absent key *)
(* and a null both read as None (JNull); the PUT handler of an entry tests *)
(* `key in data`, so its bodies mark an absent key (JAbsent).  title,      *)
(* division and notes are drawn from null and strings only.                *)
(***************************************************************************)
EXTENDS Integers, Sequences, FiniteSets, TLC

\* project, time_entry: the two tables; request, response: the request handled
\* last and the answer it got.
VARIABLES project, time_entry, request, response, pending

vars == <<project, time_entry, request, response, pending>>

(***************************************************************************)
(* Bounds of the model.                                                    *)
(***************************************************************************)
MaxProjects == 2

\* Rows of time_entry.
MaxEntries == 2

\* Rows of time_entry where the requests follow the shift of single entries.
MaxEdited == 1

\* Hours by which updates may move a stored time beyond the shift of creation.
MaxDrift == 1

(***************************************************************************)
(* JSON values of a request body.                                          *)
(***************************************************************************)
JNull == [t |-> "null"]

\* A key the body of a PUT does not hold (`key in data` is false).
JAbsent == [t |-> "absent"]
JStr(s) == [t |-> "str", s |-> s]
JInt(n) == [t |-> "int", n |-> n]
JBool(b) == [t |-> "bool", b |-> b]

\* Python truthiness of a JSON value: `x or default`, bool(x).
Truthy(j) ==
  CASE j.t = "null" -> FALSE
    [] j.t = "bool" -> j.b
    [] j.t = "int" -> j.n # 0
    [] j.t = "str" -> j.s # <<>>

RECURSIVE lstrip(_)
lstrip(s) == IF s # <<>> /\ Head(s) = " " THEN lstrip(Tail(s)) ELSE s

RECURSIVE rstrip(_)
rstrip(s) ==
  IF s # <<>> /\ s[Len(s)] = " " THEN rstrip(SubSeq(s, 1, Len(s) - 1)) ELSE s

\* str.strip()
strip(s) == rstrip(lstrip(s))

\* (data.get(key) or "").strip()
TextOrEmpty(j) == IF Truthy(j) THEN strip(j.s) ELSE <<>>

Digits == <<"0", "1", "2", "3", "4", "5", "6", "7", "8", "9">>

IsDigit(c) == \E i \in 1..10 : Digits[i] = c

DigitVal(c) == (CHOOSE i \in 1..10 : Digits[i] = c) - 1

RECURSIVE DigitsVal(_)
DigitsVal(s) ==
  IF s = <<>> THEN 0 ELSE 10 * DigitsVal(SubSeq(s, 1, Len(s) - 1)) + DigitVal(s[Len(s)])

AllDigits(s) == s # <<>> /\ \A i \in 1..Len(s) : IsDigit(s[i])

\* int(x) of a JSON value: [ok |-> FALSE] stands for the exception it raises.
py_int(j) ==
  CASE j.t = "int" -> [ok |-> TRUE, n |-> j.n]
    [] j.t = "bool" -> [ok |-> TRUE, n |-> IF j.b THEN 1 ELSE 0]
    [] j.t \in {"null", "absent"} -> [ok |-> FALSE]
    [] j.t = "str" ->
         LET s == strip(j.s)
             signed == s # <<>> /\ Head(s) \in {"-", "+"}
             body == IF signed THEN Tail(s) ELSE s
         IN IF AllDigits(body)
            THEN [ok |-> TRUE,
                  n |-> IF signed /\ Head(s) = "-" THEN 0 - DigitsVal(body) ELSE DigitsVal(body)]
            ELSE [ok |-> FALSE]

(***************************************************************************)
(* Divisions.                                                              *)
(***************************************************************************)
MelbournePower == <<"M","e","l","b","o","u","r","n","e"," ","P","o","w","e","r">>

LiquidPack == <<"L","i","q","u","i","d"," ","P","a","c","k">>

VALID_DIVISIONS_Open == {MelbournePower, LiquidPack, <<"X">>}

VALID_DIVISIONS == {MelbournePower, LiquidPack}

(***************************************************************************)
(* The project table.  Rows are never deleted, so the row with primary key *)
(* i is project[i].                                                        *)
(***************************************************************************)
Project(id, title, prefix, division, is_active) ==
  [id |-> id, title |-> title, prefix |-> prefix, division |-> division,
   is_active |-> is_active]

Rows == {project[i] : i \in 1..Len(project)}

Max(S) == CHOOSE x \in S : \A y \in S : y <= x

\* The next 4-digit prefix for a division.
next_project_prefix(division) ==
  LET base == IF division = MelbournePower THEN 1000 ELSE 2000
      upper == base + 1000
      found == {p.prefix : p \in {q \in Rows : /\ q.division = division
                                               /\ q.prefix >= base
                                               /\ q.prefix < upper}}
  IN IF found = {} \/ Max(found) < base THEN base ELSE Max(found) + 1

\* prefix = db.Column(..., unique=True): the INSERT of a row whose prefix is
\* already in the table raises IntegrityError at commit.
PrefixUnique_NoConstraint(prefix) == TRUE

PrefixUnique(prefix) == \A q \in Rows : q.prefix # prefix

\* Project.query.filter_by(prefix=prefix).first()
prefix_exists_Never(prefix) == FALSE

prefix_exists(prefix) == \E q \in Rows : q.prefix = prefix

\* prefix_field is not None and prefix_field != ""
has_custom_prefix(data) == data.prefix.t # "null" /\ data.prefix # JStr(<<>>)

\* Only Liquid Pack machine ID projects may carry a custom prefix.
custom_prefix_allowed_Any(division) == TRUE

custom_prefix_allowed(division) == division = LiquidPack

\* base_lp <= prefix < base_lp + 1000
in_reserved_range_Exclusive(prefix) == 2000 < prefix /\ prefix < 2000 + 1000

in_reserved_range(prefix) == 2000 <= prefix /\ prefix < 2000 + 1000

\* (data.get("division") or "").strip() or "Melbourne Power"
division_of(data) ==
  IF TextOrEmpty(data.division) = <<>> THEN MelbournePower ELSE TextOrEmpty(data.division)

Error(status, msg) == [status |-> status, error |-> msg]

\* POST /api/projects, up to the prefix to insert: either a response that ends
\* the request or the validated title, division and prefix.
validate_project(data) ==
  LET title == TextOrEmpty(data.title)
      division == division_of(data)
      parsed == py_int(data.prefix)
  IN IF division \notin VALID_DIVISIONS
       THEN [done |-> TRUE, response |-> Error(400, "division must be one of VALID_DIVISIONS")]
     ELSE IF title = <<>>
       THEN [done |-> TRUE, response |-> Error(400, "Title is required")]
     ELSE IF ~has_custom_prefix(data)
       THEN [done |-> FALSE, title |-> title, division |-> division, custom |-> FALSE]
     ELSE IF ~custom_prefix_allowed(division)
       THEN [done |-> TRUE, response |->
               Error(400, "Custom prefix is only allowed for Liquid Pack machine ID projects")]
     ELSE IF ~parsed.ok
       THEN [done |-> TRUE, response |-> Error(400, "Prefix must be an integer")]
     ELSE IF parsed.n <= 0
       THEN [done |-> TRUE, response |->
               Error(400, "Machine ID prefix must be a positive integer")]
     ELSE IF in_reserved_range(parsed.n)
       THEN [done |-> TRUE, response |->
               Error(400, "Machine ID prefix must not be between 2000 and 2999")]
     ELSE IF prefix_exists(parsed.n)
       THEN [done |-> TRUE, response |-> Error(400, "Prefix already exists")]
     ELSE [done |-> FALSE, title |-> title, division |-> division, custom |-> TRUE,
           prefix |-> parsed.n]

\* The row POST /api/projects adds to the session.
new_project(v) ==
  Project(Len(project) + 1, v.title,
          IF v.custom THEN v.prefix ELSE next_project_prefix(v.division),
          v.division, TRUE)

\* An exception no handler catches is answered by Flask with a 500.
handle_exception_BadRequest(e) == Error(400, e)

handle_exception(e) == Error(500, e)

\* POST /api/projects
api_projects_POST(data) ==
  LET v == validate_project(data)
  IN /\ UNCHANGED pending
     /\ request' = [endpoint |-> "api_projects", method |-> "POST", data |-> data]
     /\ UNCHANGED time_entry
     /\ IF v.done
          THEN /\ response' = v.response
               /\ UNCHANGED project
        ELSE IF ~PrefixUnique(new_project(v).prefix)
          THEN /\ response' = handle_exception("IntegrityError")
               /\ UNCHANGED project
        ELSE /\ Len(project) < MaxProjects
             /\ project' = Append(project, new_project(v))
             /\ response' = [status |-> 201, body |-> new_project(v)]

(***************************************************************************)
(* POST /api/projects served by workers that run at the same time.  Each   *)
(* request has its own session: the checks and the choice of the prefix    *)
(* (lines 294-325) read the table, and the INSERT and the commit (lines    *)
(* 327-331) come later, after steps of the other worker.                   *)
(***************************************************************************)
Workers == {"w1", "w2"}

NoPending == [open |-> FALSE]

\* Lines 294-325: the request is answered by a failed check, or the row to
\* insert waits in the session of the worker.
api_projects_POST_validate(w, data) ==
  LET v == validate_project(data)
  IN /\ ~pending[w].open
     /\ UNCHANGED <<project, time_entry>>
     /\ IF v.done
          THEN /\ request' = [endpoint |-> "api_projects", method |-> "POST", data |-> data]
               /\ response' = v.response
               /\ UNCHANGED pending
          ELSE /\ pending' = [pending EXCEPT ![w] =
                                [open |-> TRUE, data |-> data, title |-> v.title,
                                 division |-> v.division, prefix |-> new_project(v).prefix]]
               /\ UNCHANGED <<request, response>>

\* An INSERT that the table takes whatever the prefix.
api_projects_POST_commit_Unchecked(w) ==
  LET p == Project(Len(project) + 1, pending[w].title, pending[w].prefix,
                   pending[w].division, TRUE)
  IN /\ pending[w].open
     /\ pending' = [pending EXCEPT ![w] = NoPending]
     /\ request' = [endpoint |-> "api_projects", method |-> "POST", data |-> pending[w].data]
     /\ UNCHANGED time_entry
     /\ Len(project) < MaxProjects
     /\ project' = Append(project, p)
     /\ response' = [status |-> 201, body |-> p]

\* Lines 326-332: the INSERT and the commit of the waiting row.
api_projects_POST_commit(w) ==
  LET p == Project(Len(project) + 1, pending[w].title, pending[w].prefix,
                   pending[w].division, TRUE)
  IN /\ pending[w].open
     /\ pending' = [pending EXCEPT ![w] = NoPending]
     /\ request' = [endpoint |-> "api_projects", method |-> "POST", data |-> pending[w].data]
     /\ UNCHANGED time_entry
     /\ IF ~PrefixUnique(p.prefix)
          THEN /\ response' = handle_exception("IntegrityError")
               /\ UNCHANGED project
          ELSE /\ Len(project) < MaxProjects
               /\ project' = Append(project, p)
               /\ response' = [status |-> 201, body |-> p]

\* Project.query.get_or_404(pid)
project_exists(pid) == pid \in 1..Len(project)

\* An update that also assigns an integer prefix of the body.
updated_project_WithPrefix(p, data) ==
  [p EXCEPT !.title = IF data.title.t # "null" THEN strip(data.title.s) ELSE @,
            !.division = IF data.division.t # "null" THEN data.division.s ELSE @,
            !.is_active = IF data.is_active.t # "null" THEN Truthy(data.is_active) ELSE @,
            !.prefix = IF data.prefix.t = "int" THEN data.prefix.n ELSE @]

\* An update that reads a missing is_active as the default of the column.
updated_project_DefaultActive(p, data) ==
  [p EXCEPT !.title = IF data.title.t # "null" THEN strip(data.title.s) ELSE @,
            !.division = IF data.division.t # "null" THEN data.division.s ELSE @,
            !.is_active = Truthy(data.is_active) \/ data.is_active.t = "null"]

\* PUT /api/projects/<pid>: the row after the assignments of the handler.
updated_project(p, data) ==
  [p EXCEPT !.title = IF data.title.t # "null" THEN strip(data.title.s) ELSE @,
            !.division = IF data.division.t # "null" THEN data.division.s ELSE @,
            !.is_active = IF data.is_active.t # "null" THEN Truthy(data.is_active) ELSE @]

\* An update whose assignments reach the table before the check of the
\* division.
api_project_update_PUT_Flushed(pid, data) ==
  /\ UNCHANGED pending
  /\ request' = [endpoint |-> "api_project_update", method |-> "PUT", pid |-> pid,
                 data |-> data]
  /\ UNCHANGED time_entry
  /\ IF ~project_exists(pid)
       THEN /\ response' = [status |-> 404]
            /\ UNCHANGED project
     ELSE IF data.division.t # "null" /\ data.division.s \notin VALID_DIVISIONS
       THEN /\ response' = Error(400, "division must be one of VALID_DIVISIONS")
            /\ project' = [project EXCEPT ![pid].title =
                             IF data.title.t # "null" THEN strip(data.title.s) ELSE @]
     ELSE /\ project' = [project EXCEPT ![pid] = updated_project(@, data)]
          /\ response' = [status |-> 200, body |-> project'[pid]]

\* PUT /api/projects/<pid>
api_project_update_PUT(pid, data) ==
  /\ UNCHANGED pending
  /\ request' = [endpoint |-> "api_project_update", method |-> "PUT", pid |-> pid,
                 data |-> data]
  /\ UNCHANGED time_entry
  /\ IF ~project_exists(pid)
       THEN /\ response' = [status |-> 404]
            /\ UNCHANGED project
     ELSE IF data.division.t # "null" /\ data.division.s \notin VALID_DIVISIONS
       THEN /\ response' = Error(400, "division must be one of VALID_DIVISIONS")
            /\ UNCHANGED project
     ELSE /\ project' = [project EXCEPT ![pid] = updated_project(@, data)]
          /\ response' = [status |-> 200, body |-> project'[pid]]

\* DELETE /api/projects/<pid> (soft delete)
api_project_update_DELETE(pid) ==
  /\ UNCHANGED pending
  /\ request' = [endpoint |-> "api_project_update", method |-> "DELETE", pid |-> pid]
  /\ UNCHANGED time_entry
  /\ IF ~project_exists(pid)
       THEN /\ response' = [status |-> 404]
            /\ UNCHANGED project
     ELSE /\ project' = [project EXCEPT ![pid].is_active = FALSE]
          /\ response' = [status |-> 204]

\* GET /api/projects: every row, ordered by division and prefix (kept as a
\* set).
api_projects_GET ==
  /\ UNCHANGED pending
  /\ request' = [endpoint |-> "api_projects", method |-> "GET"]
  /\ response' = [status |-> 200, body |-> Rows]
  /\ UNCHANGED <<project, time_entry>>

(***************************************************************************)
(* Date-times.  A datetime is the number of minutes since 0001-01-01T00:00 *)
(* (60 * 24 * date.toordinal() - 1 day, plus the time of day).             *)
(***************************************************************************)
HOUR == 60

SECONDS_PER_HOUR == 3600

IsLeap(y) == (y % 4 = 0 /\ y % 100 # 0) \/ y % 400 = 0

DaysInMonth(y, m) ==
  IF m = 2 THEN (IF IsLeap(y) THEN 29 ELSE 28)
  ELSE IF m \in {4, 6, 9, 11} THEN 30 ELSE 31

RECURSIVE DaysBeforeMonth(_, _)
DaysBeforeMonth(y, m) ==
  IF m = 1 THEN 0 ELSE DaysBeforeMonth(y, m - 1) + DaysInMonth(y, m - 1)

DaysBeforeYear(y) ==
  (y - 1) * 365 + ((y - 1) \div 4) - ((y - 1) \div 100) + ((y - 1) \div 400)

\* datetime(y, m, d, hh, mi)
datetime(y, m, d, hh, mi) ==
  ((DaysBeforeYear(y) + DaysBeforeMonth(y, m) + d - 1) * 24 + hh) * 60 + mi

Field(s, a, b) == SubSeq(s, a, b)

\* datetime.strptime(s, "%Y-%m-%dT%H:%M") of a 16-character text
strptime(s) ==
  LET y == DigitsVal(Field(s, 1, 4))
      m == DigitsVal(Field(s, 6, 7))
      d == DigitsVal(Field(s, 9, 10))
      hh == DigitsVal(Field(s, 12, 13))
      mi == DigitsVal(Field(s, 15, 16))
  IN IF /\ AllDigits(Field(s, 1, 4)) /\ s[5] = "-"
        /\ AllDigits(Field(s, 6, 7)) /\ s[8] = "-"
        /\ AllDigits(Field(s, 9, 10)) /\ s[11] = "T"
        /\ AllDigits(Field(s, 12, 13)) /\ s[14] = ":"
        /\ AllDigits(Field(s, 15, 16))
        /\ y >= 1 /\ m \in 1..12 /\ d >= 1 /\ d <= DaysInMonth(y, m)
        /\ hh <= 23 /\ mi <= 59
       THEN [ok |-> TRUE, t |-> datetime(y, m, d, hh, mi)]
       ELSE [ok |-> FALSE]

\* datetime.fromisoformat(s), for the texts that are not 16 characters with a
\* "T": a date "YYYY-MM-DD" is midnight of that day, the other texts of the
\* model are no ISO date-time.
fromisoformat(s) ==
  IF Len(s) = 10 THEN strptime(s \o <<"T", "0", "0", ":", "0", "0">>) ELSE [ok |-> FALSE]

\* parse_dt: [ok |-> FALSE] stands for the ValueError it raises (None has no
\* "T" in it: TypeError, turned into the same ValueError).
parse_dt(j) ==
  IF j.t # "str" THEN [ok |-> FALSE]
  ELSE IF (\E i \in 1..Len(j.s) : j.s[i] = "T") /\ Len(j.s) = 16 THEN strptime(j.s)
  ELSE fromisoformat(j.s)

(***************************************************************************)
(* The time_entry table: a set of rows.  The primary key of a new row is   *)
(* one more than the largest in the table (SQLite ROWID), 1 when empty.    *)
(* No handler looks project_id up, and SQLite does not enforce the foreign *)
(* key unless asked to, so a row may name a project that does not exist.   *)
(***************************************************************************)
TimeEntry(id, user_id, project_id, start_time, end_time, notes, tm, ta) ==
  [id |-> id, user_id |-> user_id, project_id |-> project_id,
   start_time |-> start_time, end_time |-> end_time, notes |-> notes,
   travel_morning |-> tm, travel_afternoon |-> ta]

next_entry_id == IF time_entry = {} THEN 1 ELSE Max({e.id : e \in time_entry}) + 1

\* TimeEntry.duration_hours, as the fraction <<seconds, 3600>>
duration_hours(e) == <<(e.end_time - e.start_time) * 60, SECONDS_PER_HOUR>>

\* TimeEntry.project, joined on active projects only.
entry_project_ActiveOnly(e) == {p \in Rows : p.id = e.project_id /\ p.is_active}

\* TimeEntry.project: the project row the foreign key names, as a set (empty:
\* None).
entry_project(e) == {p \in Rows : p.id = e.project_id}

\* `self.project.<field> if self.project else None`
project_field(e, field) ==
  IF entry_project(e) = {} THEN JNull
  ELSE LET p == CHOOSE q \in entry_project(e) : TRUE
       IN IF field = "prefix" THEN JInt(p.prefix) ELSE JStr(p[field])

\* TimeEntry.as_dict: the fields of the row, those of its project and the
\* derived duration.
entry_as_dict(e) ==
  [entry |-> e,
   project_title |-> project_field(e, "title"),
   project_prefix |-> project_field(e, "prefix"),
   project_division |-> project_field(e, "division"),
   duration_hours |-> duration_hours(e)]

\* `x if self.project else ""` of the export
or_empty(j) == IF j = JNull THEN JStr(<<>>) ELSE j

\* f"{x:.3f}" of the fraction x, in thousandths: the nearest decimal with
\* three places (no span of whole seconds lies halfway between two).
format_3f(x) == (2 * 1000 * x[1] + x[2]) \div (2 * x[2])

\* A row of the CSV export (the username column is left out: the user table
\* is not part of the model).
export_row(e) ==
  [entry_id |-> e.id,
   project_prefix |-> or_empty(project_field(e, "prefix")),
   project_title |-> or_empty(project_field(e, "title")),
   project_division |-> or_empty(project_field(e, "division")),
   start_time |-> e.start_time,
   end_time |-> e.end_time,
   duration_hours |-> format_3f(duration_hours(e)),
   notes |-> e.notes,
   travel_morning |-> IF e.travel_morning THEN 1 ELSE 0,
   travel_afternoon |-> IF e.travel_afternoon THEN 1 ELSE 0]

\* q.filter(TimeEntry.project_id == int(project_id)) when the argument is
\* given and not empty
filter_project(arg) ==
  IF Truthy(arg) THEN {e \in time_entry : e.project_id = py_int(arg).n} ELSE time_entry

\* GET /api/entries?project_id=arg (no other filter given).  The rows come
\* ordered by start_time; the model keeps them as a set.
api_entries_GET(arg) ==
  /\ UNCHANGED pending
  /\ request' = [endpoint |-> "api_entries", method |-> "GET", project_id |-> arg]
  /\ UNCHANGED <<project, time_entry>>
  /\ IF Truthy(arg) /\ ~py_int(arg).ok
       THEN response' = handle_exception("ValueError")
       ELSE response' = [status |-> 200, body |-> {entry_as_dict(e) : e \in filter_project(arg)}]

\* The entries of S in a sequence of descending start_time.
order_by_start_time_Desc(S) ==
  {rows \in [1..Cardinality(S) -> S] :
     /\ \A e \in S : \E i \in 1..Cardinality(S) : rows[i] = e
     /\ \A i \in 1..(Cardinality(S) - 1) : rows[i].start_time >= rows[i + 1].start_time}

\* q.order_by(TimeEntry.start_time.asc()).all(): the entries of S in a
\* sequence of ascending start_time.  The database is free in the order of
\* entries that start together, so this is the set of such sequences.
order_by_start_time(S) ==
  {rows \in [1..Cardinality(S) -> S] :
     /\ \A e \in S : \E i \in 1..Cardinality(S) : rows[i] = e
     /\ \A i \in 1..(Cardinality(S) - 1) : rows[i].start_time <= rows[i + 1].start_time}

\* GET /api/export?project_id=arg: the data rows of the CSV, in order.
api_export(arg) ==
  /\ UNCHANGED pending
  /\ request' = [endpoint |-> "api_export", method |-> "GET", project_id |-> arg]
  /\ UNCHANGED <<project, time_entry>>
  /\ IF Truthy(arg) /\ ~py_int(arg).ok
       THEN response' = handle_exception("ValueError")
       ELSE \E rows \in order_by_start_time(filter_project(arg)) :
              response' = [status |-> 200,
                           body |-> [i \in 1..Len(rows) |-> export_row(rows[i])]]

\* if travel_morning: start_time = start_time - timedelta(hours=1)
shift_start_Forward(t, travel_morning) == IF travel_morning THEN t + HOUR ELSE t

shift_start(t, travel_morning) == IF travel_morning THEN t - HOUR ELSE t

\* if travel_afternoon: end_time = end_time + timedelta(hours=1)
shift_end(t, travel_afternoon) == IF travel_afternoon THEN t + HOUR ELSE t

\* if end_time <= start_time: 400
not_after_Strict(st, en) == en < st

not_after(st, en) == en <= st

\* A row attributed to the first user whoever is logged in.
new_entry_FirstUser(user, data, pid, raw_start, raw_end) ==
  TimeEntry(next_entry_id, 1, pid,
            shift_start(raw_start, Truthy(data.travel_morning)),
            shift_end(raw_end, Truthy(data.travel_afternoon)),
            TextOrEmpty(data.notes),
            Truthy(data.travel_morning), Truthy(data.travel_afternoon))

\* The row POST /api/entries stores, given the parsed project_id, start_time
\* and end_time.
new_entry(user, data, pid, raw_start, raw_end) ==
  TimeEntry(next_entry_id, user, pid,
            shift_start(raw_start, Truthy(data.travel_morning)),
            shift_end(raw_end, Truthy(data.travel_afternoon)),
            TextOrEmpty(data.notes),
            Truthy(data.travel_morning), Truthy(data.travel_afternoon))

\* POST /api/entries by the logged-in user
api_entries_POST(user, data) ==
  \E pid \in {py_int(data.project_id)},
     raw_start \in {parse_dt(data.start_time)},
     raw_end \in {parse_dt(data.end_time)} :
    /\ UNCHANGED pending
    /\ request' = [endpoint |-> "api_entries", method |-> "POST", user |-> user,
                   data |-> data]
    /\ UNCHANGED project
    /\ IF ~pid.ok \/ ~raw_start.ok \/ ~raw_end.ok
         THEN /\ response' = Error(400, "invalid project_id or datetime")
              /\ UNCHANGED time_entry
       ELSE \E entry \in {new_entry(user, data, pid.n, raw_start.t, raw_end.t)} :
              IF not_after(entry.start_time, entry.end_time)
                THEN /\ response' = Error(400, "End time must be after start time")
                     /\ UNCHANGED time_entry
              ELSE /\ entry.id <= MaxEntries
                   /\ time_entry' = time_entry \cup {entry}
                   /\ response' = [status |-> 201, body |-> entry_as_dict(entry)]

\* TimeEntry.query.get_or_404(eid)
entry_exists(eid) == \E e \in time_entry : e.id = eid

entry_of(eid) == CHOOSE e \in time_entry : e.id = eid

\* A delete that answers 204 whether the entry exists or not.
api_entry_update_DELETE_Silent(user, eid) ==
  /\ UNCHANGED pending
  /\ request' = [endpoint |-> "api_entry_update", method |-> "DELETE", user |-> user,
                 eid |-> eid]
  /\ UNCHANGED project
  /\ time_entry' = {e \in time_entry : e.id # eid}
  /\ response' = [status |-> 204]

\* DELETE /api/entries/<eid>
api_entry_update_DELETE(user, eid) ==
  /\ UNCHANGED pending
  /\ request' = [endpoint |-> "api_entry_update", method |-> "DELETE", user |-> user,
                 eid |-> eid]
  /\ UNCHANGED project
  /\ IF ~entry_exists(eid)
       THEN /\ response' = [status |-> 404]
            /\ UNCHANGED time_entry
     ELSE /\ time_entry' = time_entry \ {entry_of(eid)}
          /\ response' = [status |-> 204]

\* Stored times the model follows: those within MaxDrift hours of the times
\* a creation can store.
EarliestStart == datetime(2024, 1, 2, 5, 0) - MaxDrift * HOUR

LatestEnd == datetime(2024, 1, 2, 15, 30) + MaxDrift * HOUR

has(j) == j.t # "absent"

\* An update that computes the shift from the flags the entry had before the
\* request.
updated_entry_OldFlags(entry, data, pid, raw_start, raw_end) ==
  [entry EXCEPT
     !.project_id = IF has(data.project_id) THEN pid.n ELSE @,
     !.notes = IF has(data.notes) THEN TextOrEmpty(data.notes) ELSE @,
     !.travel_morning = IF has(data.travel_morning) THEN Truthy(data.travel_morning) ELSE @,
     !.travel_afternoon = IF has(data.travel_afternoon) THEN Truthy(data.travel_afternoon) ELSE @,
     !.start_time = shift_start(IF has(data.start_time) THEN raw_start.t ELSE @,
                                entry.travel_morning),
     !.end_time = shift_end(IF has(data.end_time) THEN raw_end.t ELSE @,
                            entry.travel_afternoon)]

\* An update that shifts an unsupplied time from the raw time of the entry
\* (the stored time with its shift undone) and not from the stored time.
updated_entry_FromRaw(entry, data, pid, raw_start, raw_end) ==
  LET tm == IF has(data.travel_morning) THEN Truthy(data.travel_morning)
            ELSE entry.travel_morning
      ta == IF has(data.travel_afternoon) THEN Truthy(data.travel_afternoon)
            ELSE entry.travel_afternoon
  IN [entry EXCEPT
        !.project_id = IF has(data.project_id) THEN pid.n ELSE @,
        !.notes = IF has(data.notes) THEN TextOrEmpty(data.notes) ELSE @,
        !.travel_morning = tm,
        !.travel_afternoon = ta,
        !.start_time = shift_start(IF has(data.start_time) THEN raw_start.t
                                   ELSE @ + (IF entry.travel_morning THEN HOUR ELSE 0), tm),
        !.end_time = shift_end(IF has(data.end_time) THEN raw_end.t
                               ELSE @ - (IF entry.travel_afternoon THEN HOUR ELSE 0), ta)]

\* PUT /api/entries/<eid>: the row after the assignments of the handler, given
\* the parsed project_id, start_time and end_time of the body.
updated_entry(entry, data, pid, raw_start, raw_end) ==
  LET tm == IF has(data.travel_morning) THEN Truthy(data.travel_morning)
            ELSE entry.travel_morning
      ta == IF has(data.travel_afternoon) THEN Truthy(data.travel_afternoon)
            ELSE entry.travel_afternoon
  IN [entry EXCEPT
        !.project_id = IF has(data.project_id) THEN pid.n ELSE @,
        !.notes = IF has(data.notes) THEN TextOrEmpty(data.notes) ELSE @,
        !.travel_morning = tm,
        !.travel_afternoon = ta,
        !.start_time = shift_start(IF has(data.start_time) THEN raw_start.t ELSE @, tm),
        !.end_time = shift_end(IF has(data.end_time) THEN raw_end.t ELSE @, ta)]

\* PUT /api/entries/<eid>
api_entry_update_PUT(user, eid, data) ==
  /\ UNCHANGED pending
  /\ request' = [endpoint |-> "api_entry_update", method |-> "PUT", user |-> user,
                 eid |-> eid,
                 data |-> data]
  /\ UNCHANGED project
  /\ IF ~entry_exists(eid)
       THEN /\ response' = [status |-> 404]
            /\ UNCHANGED time_entry
     ELSE \E entry \in {entry_of(eid)},
             pid \in {py_int(data.project_id)},
             raw_start \in {parse_dt(data.start_time)},
             raw_end \in {parse_dt(data.end_time)} :
       IF has(data.project_id) /\ ~pid.ok
         THEN /\ response' = handle_exception("ValueError")
              /\ UNCHANGED time_entry
       ELSE IF (has(data.start_time) /\ ~raw_start.ok) \/ (has(data.end_time) /\ ~raw_end.ok)
         THEN /\ response' = handle_exception("ValueError")
              /\ UNCHANGED time_entry
       ELSE \E updated \in {updated_entry(entry, data, pid, raw_start, raw_end)} :
              IF not_after(updated.start_time, updated.end_time)
                THEN /\ response' = Error(400, "End time must be after start time")
                     /\ UNCHANGED time_entry
              ELSE /\ updated.start_time >= EarliestStart
                   /\ updated.end_time <= LatestEnd
                   /\ time_entry' = (time_entry \ {entry}) \cup {updated}
                   /\ response' = [status |-> 200, body |-> entry_as_dict(updated)]

(***************************************************************************)
(* The edit dialog of the entries page (openEditModal).  It shows the raw  *)
(* window of a stored entry as one date and two times of day, and Save     *)
(* sends those back, with the project, notes and flags of the form, as a   *)
(* PUT of the entry.                                                       *)
(***************************************************************************)
\* Years the calendar fields of a date-time are looked up in.
Years == 2023..2025

getFullYear(t) ==
  CHOOSE y \in Years :
    DaysBeforeYear(y) <= t \div (24 * 60) /\ t \div (24 * 60) < DaysBeforeYear(y + 1)

\* Date.getMonth() + 1
getMonth1(t) ==
  LET y == getFullYear(t)
      n == t \div (24 * 60) - DaysBeforeYear(y)
  IN CHOOSE m \in 1..12 :
       DaysBeforeMonth(y, m) <= n /\ n < DaysBeforeMonth(y, m) + DaysInMonth(y, m)

getDate(t) ==
  t \div (24 * 60) - DaysBeforeYear(getFullYear(t))
    - DaysBeforeMonth(getFullYear(t), getMonth1(t)) + 1

getHours(t) == (t \div 60) % 24

getMinutes(t) == t % 60

\* The decimal digits of n, at least `width` of them.
RECURSIVE padStart(_, _)
padStart(n, width) ==
  IF width <= 1 /\ n < 10 THEN <<Digits[n + 1]>>
  ELSE padStart(n \div 10, width - 1) \o <<Digits[(n % 10) + 1]>>

\* const pad = (n) => String(n).padStart(2, '0')
pad(n) == padStart(n, 2)

\* `${getFullYear()}-${pad(getMonth()+1)}-${pad(getDate())}`
toLocalDate(t) ==
  padStart(getFullYear(t), 1) \o <<"-">> \o pad(getMonth1(t)) \o <<"-">> \o pad(getDate(t))

\* `${pad(getHours())}:${pad(getMinutes())}`
toLocalTime(t) == pad(getHours(t)) \o <<":">> \o pad(getMinutes(t))

\* The raw start and end the dialog derives from the stored ones.
sRaw(entry) == entry.start_time + (IF entry.travel_morning THEN HOUR ELSE 0)

eRaw(entry) == entry.end_time - (IF entry.travel_afternoon THEN HOUR ELSE 0)

\* The options of the project select: the active projects and the project of
\* the entry, the Melbourne Power group before the other, each by prefix.
editProject_before(p, q) ==
  \/ p.division = MelbournePower /\ q.division # MelbournePower
  \/ /\ (p.division = MelbournePower) = (q.division = MelbournePower)
     /\ p.prefix <= q.prefix

\* Number(select.value): the project of the entry when it is among the
\* options, else the first option, else Number("") = 0.
editProject_value(entry) ==
  IF \E p \in Rows : p.id = entry.project_id THEN entry.project_id
  ELSE IF \E p \in Rows : p.is_active
    THEN (CHOOSE p \in Rows :
            p.is_active /\ \A q \in Rows : q.is_active => editProject_before(p, q)).id
  ELSE 0

\* The body Save sends when the form is left as the dialog filled it.
openEditModal_body(entry) ==
  [project_id |-> JInt(editProject_value(entry)),
   notes |-> JStr(entry.notes),
   start_time |-> JStr(toLocalDate(sRaw(entry)) \o <<"T">> \o toLocalTime(sRaw(entry))),
   end_time |-> JStr(toLocalDate(sRaw(entry)) \o <<"T">> \o toLocalTime(eRaw(entry))),
   travel_morning |-> JBool(entry.travel_morning),
   travel_afternoon |-> JBool(entry.travel_afternoon)]

\* Edit, then Save, on a listed entry.
openEditModal_save(user, eid) ==
  /\ entry_exists(eid)
  /\ \E data \in {openEditModal_body(entry_of(eid))} : api_entry_update_PUT(user, eid, data)

\* @login_required without a session: login_manager.login_view = "login", so
\* the request is answered with a redirect to the login form.
ApiEndpoints == {"api_projects", "api_entries"}

login_required_unauthorized(endpoint) ==
  /\ UNCHANGED pending
  /\ request' = [endpoint |-> endpoint, method |-> "ANY", session |-> FALSE]
  /\ response' = [status |-> 302, location |-> "login", next |-> endpoint]
  /\ UNCHANGED <<project, time_entry>>

Init ==
  /\ project = <<>>
  /\ time_entry = {}
  /\ request = [endpoint |-> "none", method |-> "none"]
  /\ response = [status |-> 0]
  /\ pending = [w \in Workers |-> NoPending]

TitleA == JStr(<<" ", "A", " ">>)

Titles == {JNull, JStr(<<" ">>), TitleA}

CreateDivisions ==
  {JNull, JStr(<<>>), JStr(<<" ">>), JStr(MelbournePower),
   JStr(<<" ">> \o LiquidPack \o <<" ">>), JStr(<<"X">>)}

PrefixFields ==
  {JNull, JStr(<<>>), JStr(<<"x">>), JStr(<<" ", "1", "0", "0", "0">>),
   JInt(0), JInt(1999), JInt(2000), JInt(2999)}

\* Bodies of POST /api/projects: every division and prefix with a title, and
\* a few bodies whose title is missing or blank.
ProjectBodies ==
  [title : {TitleA}, division : CreateDivisions, prefix : PrefixFields]
    \cup [title : {JNull, JStr(<<" ">>)}, division : {JStr(MelbournePower), JStr(<<"X">>)},
          prefix : {JNull, JInt(1999)}]

UpdateDivisions == {JNull, JStr(MelbournePower), JStr(LiquidPack)}

ActiveFields == {JNull, JBool(TRUE), JInt(0)}

\* Updates that leave the title alone.
ProjectMoves == [title : {JNull}, division : UpdateDivisions, is_active : ActiveFields]

ProjectIds == 1..(MaxProjects + 1)

NextProjects ==
  \/ \E data \in ProjectBodies : api_projects_POST(data)
  \/ \E pid \in ProjectIds, data \in ProjectMoves : api_project_update_PUT(pid, data)
  \/ \E pid \in ProjectIds : api_project_update_DELETE(pid)
  \/ \E endpoint \in ApiEndpoints : login_required_unauthorized(endpoint)

SpecProjects == Init /\ [][NextProjects]_vars

(***************************************************************************)
(* Requests of the time-entry handlers.                                    *)
(***************************************************************************)
Day == <<"2", "0", "2", "4", "-", "0", "1", "-", "0", "2">>

Stamp(hh, mi) == JStr(Day \o <<"T">> \o hh \o <<":">> \o mi)

T0600 == Stamp(<<"0", "6">>, <<"0", "0">>)

T1430 == Stamp(<<"1", "4">>, <<"3", "0">>)

T0500 == Stamp(<<"0", "5">>, <<"0", "0">>)

\* No date-time: the time of day alone.
TBad == JStr(<<"0", "6", ":", "0", "0">>)

CreateFlags == {JNull, JBool(TRUE), JBool(FALSE), JStr(<<"n", "o">>)}

EntryBody(pid, st, en, tm, ta) ==
  [project_id |-> pid, start_time |-> st, end_time |-> en, notes |-> JNull,
   travel_morning |-> tm, travel_afternoon |-> ta]

\* Bodies of POST /api/entries: a day's work, an empty span and two reversed
\* spans (by an hour, by most of the day) under every pair of flags, and
\* bodies with a field that does not parse.
EntryBodies ==
  {EntryBody(JInt(1), t[1], t[2], tm, ta) :
     t \in {<<T0600, T1430>>, <<T0600, T0600>>, <<T0600, T0500>>, <<T1430, T0600>>},
     tm \in CreateFlags, ta \in CreateFlags}
    \cup {EntryBody(JInt(1), TBad, T1430, JNull, JNull),
          EntryBody(JInt(1), T0600, JNull, JNull, JBool(TRUE)),
          EntryBody(JStr(<<"x">>), T0600, T1430, JNull, JNull),
          EntryBody(JStr(<<"1">>), JStr(Day), T1430, JBool(TRUE), JNull)}

EntryIds == 1..(MaxEdited + 1)

\* The creation leaves entries with the ids 1..MaxEdited.
FewEntries == \A e \in time_entry' : e.id <= MaxEdited

\* The user of the session.
EntryUsers == {1}

NextEntryCreate ==
  \/ \E user \in EntryUsers, data \in EntryBodies :
       api_entries_POST(user, data) /\ FewEntries
  \/ \E user \in EntryUsers, eid \in EntryIds : api_entry_update_DELETE(user, eid)
  \/ \E endpoint \in ApiEndpoints : login_required_unauthorized(endpoint)

SpecEntryCreate == Init /\ [][NextEntryCreate]_vars

UpdateFlags == {JAbsent, JBool(TRUE), JBool(FALSE)}

EntryUpdate(st, en, tm, ta) ==
  [project_id |-> JAbsent, start_time |-> st, end_time |-> en, notes |-> JAbsent,
   travel_morning |-> tm, travel_afternoon |-> ta]

\* Bodies of PUT /api/entries/<eid>: flags alone, times alone, both.
EntryUpdates ==
  {EntryUpdate(JAbsent, JAbsent, tm, ta) : tm \in UpdateFlags, ta \in UpdateFlags}
    \cup {EntryUpdate(T0600, T1430, f[1], f[2]) :
            f \in {<<JAbsent, JAbsent>>, <<JBool(TRUE), JAbsent>>,
                   <<JBool(FALSE), JBool(TRUE)>>}}
    \cup {EntryUpdate(T0600, JAbsent, JAbsent, JAbsent),
          EntryUpdate(JAbsent, T1430, JAbsent, JAbsent),
          EntryUpdate(T1430, T0600, JBool(TRUE), JBool(TRUE)),
          EntryUpdate(TBad, JAbsent, JAbsent, JAbsent)}

\* Bodies of POST /api/entries next to updates.
EntryStarts ==
  {EntryBody(JInt(1), T0600, T1430, tm, ta) :
     tm \in {JNull, JBool(TRUE)}, ta \in {JNull, JBool(TRUE)}}
    \cup {EntryBody(JInt(1), T0600, T0600, JNull, JNull),
          EntryBody(JInt(1), T1430, T0600, JBool(TRUE), JBool(TRUE)),
          EntryBody(JInt(1), TBad, T1430, JNull, JNull)}

NextEntries ==
  \/ \E user \in EntryUsers, data \in EntryStarts :
       api_entries_POST(user, data) /\ FewEntries
  \/ \E user \in EntryUsers, eid \in EntryIds, data \in EntryUpdates :
       api_entry_update_PUT(user, eid, data)
  \/ \E user \in EntryUsers, eid \in EntryIds : api_entry_update_DELETE(user, eid)

SpecEntries == Init /\ [][NextEntries]_vars

(***************************************************************************)
(* Requests of the entries page: entries are created from raw windows,     *)
(* updated with both times, and saved again from the edit dialog.          *)
(***************************************************************************)
NextDay == <<"2", "0", "2", "4", "-", "0", "1", "-", "0", "3">>

T1430NextDay == JStr(NextDay \o <<"T", "1", "4", ":", "3", "0">>)

EditorProjects == {[title |-> TitleA, division |-> JStr(MelbournePower), prefix |-> JNull]}

\* A day's work under every pair of flags, and a window that ends on the
\* next day.
EditorBodies ==
  {EntryBody(JInt(1), T0600, T1430, tm, ta) :
     tm \in {JNull, JBool(TRUE)}, ta \in {JNull, JBool(TRUE)}}
    \cup {EntryBody(JInt(1), T0600, T1430NextDay, JNull, JBool(TRUE))}

\* Updates that supply both times.
EditorUpdates ==
  {EntryUpdate(T0500, T1430, tm, ta) :
     tm \in {JAbsent, JBool(TRUE)}, ta \in {JAbsent, JBool(FALSE)}}

NextEditors ==
  \/ \E data \in EditorProjects : api_projects_POST(data)
  \/ \E user \in EntryUsers, data \in EditorBodies :
       api_entries_POST(user, data) /\ FewEntries
  \/ \E user \in EntryUsers, eid \in EntryIds, data \in EditorUpdates :
       api_entry_update_PUT(user, eid, data)
  \/ \E user \in EntryUsers, eid \in EntryIds : openEditModal_save(user, eid)
  \/ \E user \in EntryUsers, eid \in EntryIds : api_entry_update_DELETE(user, eid)

SpecEditors == Init /\ [][NextEditors]_vars

(***************************************************************************)
(* Requests of projects and entries together: two Liquid Pack projects     *)
(* with prefixes of their own, updates of every field, entries of either   *)
(* project, and the listings.                                              *)
(***************************************************************************)
TitleB == JStr(<<" ", "B">>)

ApiProjects ==
  {[title |-> TitleA, division |-> JStr(LiquidPack), prefix |-> JInt(n)] : n \in {1500, 1600}}

ProjectUpdate(title, division, is_active, prefix) ==
  [title |-> title, division |-> division, is_active |-> is_active, prefix |-> prefix]

\* One field at a time, a prefix, and a division that is not recognized next
\* to a title.
ApiProjectUpdates ==
  {ProjectUpdate(TitleB, JNull, JNull, JNull),
   ProjectUpdate(JNull, JStr(MelbournePower), JNull, JNull),
   ProjectUpdate(JNull, JNull, JBool(TRUE), JNull),
   ProjectUpdate(JNull, JNull, JNull, JInt(1234)),
   ProjectUpdate(TitleB, JStr(<<" ">> \o LiquidPack), JBool(FALSE), JNull)}

ApiEntryBodies == {EntryBody(JInt(pid), T0600, T1430, JNull, JNull) : pid \in 1..2}

\* New times, and a move to project 2.
ApiEntryUpdates ==
  {EntryUpdate(T0500, T1430, JAbsent, JAbsent),
   [EntryUpdate(JAbsent, JAbsent, JAbsent, JAbsent) EXCEPT !.project_id = JInt(2)]}

ProjectFilters == {JNull, JStr(<<"1">>)}

NextApi ==
  \/ \E data \in ApiProjects : api_projects_POST(data)
  \/ api_projects_GET
  \/ \E pid \in ProjectIds, data \in ApiProjectUpdates : api_project_update_PUT(pid, data)
  \/ \E pid \in ProjectIds : api_project_update_DELETE(pid)
  \/ \E user \in EntryUsers, data \in ApiEntryBodies :
       api_entries_POST(user, data) /\ FewEntries
  \/ \E arg \in ProjectFilters : api_entries_GET(arg)
  \/ \E user \in EntryUsers, eid \in EntryIds, data \in ApiEntryUpdates :
       api_entry_update_PUT(user, eid, data)
  \/ \E user \in EntryUsers, eid \in EntryIds : api_entry_update_DELETE(user, eid)
  \/ \E arg \in ProjectFilters : api_export(arg)

SpecApi == Init /\ [][NextApi]_vars

(***************************************************************************)
(* Requests of the export: a project that may be soft-deleted, entries of  *)
(* it and of a project id without a row, that start at different times or *)
(* together, one of them 70 minutes long.                                  *)
(***************************************************************************)
T0610 == Stamp(<<"0", "6">>, <<"1", "0">>)

ExportProjects == {[title |-> TitleA, division |-> JStr(LiquidPack), prefix |-> JInt(1500)]}

ExportBodies ==
  {EntryBody(JInt(1), T0600, T1430, JNull, JNull),
   EntryBody(JInt(1), T0500, T0610, JNull, JNull),
   EntryBody(JInt(2), T0600, T1430, JNull, JBool(TRUE))}

ExportFilters == {JNull, JStr(<<"1">>), JStr(<<"x">>)}

ExportIds == 1..(MaxEntries + 1)

NextExport ==
  \/ \E data \in ExportProjects : api_projects_POST(data)
  \/ \E pid \in ProjectIds : api_project_update_DELETE(pid)
  \/ \E user \in EntryUsers, data \in ExportBodies : api_entries_POST(user, data)
  \/ \E user \in EntryUsers, eid \in ExportIds : api_entry_update_DELETE(user, eid)
  \/ \E arg \in ExportFilters : api_export(arg)

SpecExport == Init /\ [][NextExport]_vars

(***************************************************************************)
(* Creations of projects by two workers at the same time: with the same    *)
(* custom prefix, or with the prefix chosen by the server for a division.  *)
(***************************************************************************)
RaceProjects ==
  {[title |-> TitleA, division |-> JStr(LiquidPack), prefix |-> JInt(1500)],
   [title |-> TitleA, division |-> JStr(LiquidPack), prefix |-> JNull],
   [title |-> TitleA, division |-> JNull, prefix |-> JNull]}

NextRace ==
  \/ \E w \in Workers, data \in RaceProjects : api_projects_POST_validate(w, data)
  \/ \E w \in Workers : api_projects_POST_commit(w)

SpecRace == Init /\ [][NextRace]_vars

(***************************************************************************)
(* Requests of two users on the same entries: each creates entries, with   *)
(* and without travel flags, and each updates the notes or the project of  *)
(* any entry and deletes any entry.                                        *)
(***************************************************************************)
SessionUsers == {1, 2}

Note == JStr(<<"n">>)

SessionBodies ==
  {EntryBody(JInt(1), T0600, T1430, JNull, JNull),
   EntryBody(JInt(1), T0600, T1430, JBool(TRUE), JBool(TRUE))}

\* Updates that carry notes or a project and nothing else.
SessionUpdates ==
  {[EntryUpdate(JAbsent, JAbsent, JAbsent, JAbsent) EXCEPT !.notes = Note],
   [EntryUpdate(JAbsent, JAbsent, JAbsent, JAbsent) EXCEPT !.project_id = JInt(2)]}

NextSessions ==
  \/ \E user \in SessionUsers, data \in SessionBodies :
       api_entries_POST(user, data) /\ FewEntries
  \/ \E user \in SessionUsers, eid \in EntryIds, data \in SessionUpdates :
       api_entry_update_PUT(user, eid, data)
  \/ \E user \in SessionUsers, eid \in EntryIds : api_entry_update_DELETE(user, eid)

SpecSessions == Init /\ [][NextSessions]_vars

(***************************************************************************)
(* Requests that update projects and entries, some of them refused after   *)
(* the handler has assigned fields: a title next to a division that is not *)
(* recognized, a project, notes and flags next to a reversed window; and   *)
(* a title of one space.                                                   *)
(***************************************************************************)
TitledProjects == {[title |-> TitleA, division |-> JStr(MelbournePower), prefix |-> JNull]}

TitleUpdates ==
  {ProjectUpdate(TitleB, JNull, JNull, JNull),
   ProjectUpdate(JStr(<<" ">>), JNull, JNull, JNull),
   ProjectUpdate(TitleB, JStr(<<" ">> \o LiquidPack), JBool(FALSE), JNull)}

TitledBodies == {EntryBody(JInt(1), T0600, T1430, JNull, JNull)}

ReversedUpdate ==
  [project_id |-> JInt(2), start_time |-> T1430, end_time |-> T0600, notes |-> Note,
   travel_morning |-> JBool(TRUE), travel_afternoon |-> JBool(TRUE)]

TitledUpdates ==
  {ReversedUpdate, [EntryUpdate(JAbsent, JAbsent, JAbsent, JAbsent) EXCEPT !.notes = Note]}

NextUpdates ==
  \/ \E data \in TitledProjects : api_projects_POST(data)
  \/ \E pid \in ProjectIds, data \in TitleUpdates : api_project_update_PUT(pid, data)
  \/ \E user \in EntryUsers, data \in TitledBodies :
       api_entries_POST(user, data) /\ FewEntries
  \/ \E user \in EntryUsers, eid \in EntryIds, data \in TitledUpdates :
       api_entry_update_PUT(user, eid, data)

SpecUpdates == Init /\ [][NextUpdates]_vars

(***************************************************************************)
(* Properties of the project handlers.                                     *)
(***************************************************************************)
\* The two divisions of the specification.
TwoDivisions == {MelbournePower, LiquidPack}

IsProjectCreate(req) == req.endpoint = "api_projects" /\ req.method = "POST"

\* A creation with a non-blank title, a recognized division and no prefix.
IsAutoCreate(req) ==
  /\ IsProjectCreate(req)
  /\ TextOrEmpty(req.data.title) # <<>>
  /\ division_of(req.data) \in TwoDivisions
  /\ ~has_custom_prefix(req.data)

\* The integer a creation supplies as its prefix, as a set: empty when the
\* request is no creation, carries no prefix or carries no integer.
SuppliedPrefix(req) ==
  IF IsProjectCreate(req) /\ has_custom_prefix(req.data) /\ py_int(req.data.prefix).ok
    THEN {py_int(req.data.prefix).n}
    ELSE {}

WindowBase(division) == IF division = MelbournePower THEN 1000 ELSE 2000

Window(division) == WindowBase(division)..(WindowBase(division) + 999)

InWindow(division) ==
  {q.prefix : q \in {r \in Rows : r.division = division /\ r.prefix \in Window(division)}}

Created == Len(project') = Len(project) + 1

\* C1: no two project rows, active or not, in either division, have the same
\* prefix.
C1_PrefixGloballyUnique ==
  \A i, j \in 1..Len(project) : i # j => project[i].prefix # project[j].prefix

\* C1 witness: an insert of a prefix that a soft-deleted project of the other
\* division holds has just been refused by the table.
C1_Witness ==
  /\ IsAutoCreate(request)
  /\ response.status = 500
  /\ \E q \in Rows : /\ ~q.is_active
                     /\ q.division # division_of(request.data)
                     /\ q.prefix = next_project_prefix(division_of(request.data))

\* C2 (as claimed): a creation with a non-blank title, a recognized division
\* and no prefix is answered 201 and adds exactly one active project whose
\* prefix no project held before.
C2_AutoCreateNeverFails ==
  [][IsAutoCreate(request') =>
       /\ response'.status = 201
       /\ Created
       /\ project'[Len(project')].is_active
       /\ \A q \in Rows : q.prefix # project'[Len(project')].prefix]_vars

\* C3 (as claimed): every prefix assigned by auto-allocation lies inside the
\* window of the creating division.
C3_AutoPrefixInsideWindow ==
  (IsAutoCreate(request) /\ response.status = 201)
    => response.body.prefix \in Window(division_of(request.data))

\* C4 (as claimed): when the window of a division holds exactly the first k
\* prefixes base..base+k-1 (k = 0: none), the next creation in that division
\* without a prefix receives base+k.
C4_SequentialFromBase ==
  [][\A division \in TwoDivisions :
       (/\ IsAutoCreate(request')
        /\ division_of(request'.data) = division
        /\ InWindow(division) =
             WindowBase(division)..(WindowBase(division) + Cardinality(InWindow(division)) - 1))
         => /\ response'.status = 201
            /\ response'.body.prefix = WindowBase(division) + Cardinality(InWindow(division))]_vars

\* C5: a creation that supplies a prefix with division Melbourne Power (given
\* or defaulted) is answered 400 and persists nothing.
C5_CustomPrefixMelbournePowerFails ==
  [][(/\ IsProjectCreate(request')
      /\ has_custom_prefix(request'.data)
      /\ division_of(request'.data) = MelbournePower)
       => (response'.status = 400 /\ project' = project)]_vars

\* C5 witness: such a request was refused although its prefix is free and the
\* table holds a project.
C5_Witness ==
  /\ SuppliedPrefix(request) = {1999}
  /\ TextOrEmpty(request.data.title) # <<>>
  /\ division_of(request.data) = MelbournePower
  /\ response.status = 400
  /\ Len(project) > 0
  /\ \A q \in Rows : q.prefix # 1999

\* C6: a creation that supplies a prefix in [2000,3000) is answered 400 and
\* persists nothing; a project whose prefix lies in [2000,3000) is only ever
\* added by a creation without a prefix, and no prefix changes afterwards.
C6_ReservedRangeOnlyAuto ==
  [][/\ (\E p \in SuppliedPrefix(request') : p \in 2000..2999)
          => (response'.status = 400 /\ project' = project)
     /\ (Created /\ project'[Len(project')].prefix \in 2000..2999)
          => (IsProjectCreate(request') /\ ~has_custom_prefix(request'.data))
     /\ \A i \in 1..Len(project) : project'[i].prefix = project[i].prefix]_vars

\* C6 witness: prefix 2999 was refused for Liquid Pack while it is free and a
\* Liquid Pack project holds the auto-allocated 2000.
C6_Witness ==
  /\ SuppliedPrefix(request) = {2999}
  /\ division_of(request.data) = LiquidPack
  /\ response.status = 400
  /\ \E q \in Rows : q.division = LiquidPack /\ q.prefix = 2000

\* C7: a creation whose prefix equals the prefix of an existing project is
\* answered 400 and leaves the projects unchanged.
C7_CollidingPrefixFails ==
  [][(\E p \in SuppliedPrefix(request'), q \in Rows : q.prefix = p)
       => (response'.status = 400 /\ project' = project)]_vars

\* C7 witness: a Liquid Pack creation was refused because a soft-deleted
\* Melbourne Power project holds the prefix.
C7_Witness ==
  /\ response = Error(400, "Prefix already exists")
  /\ \E q \in Rows : /\ SuppliedPrefix(request) = {q.prefix}
                     /\ ~q.is_active
                     /\ q.division = MelbournePower

\* A division that is neither missing nor blank and, trimmed, not recognized.
UnrecognizedDivision(data) ==
  TextOrEmpty(data.division) \notin (TwoDivisions \cup {<<>>})

\* C8 (as claimed): a creation whose division is missing, blank or not
\* recognized is answered 400 and persists nothing.
C8_MissingOrUnrecognizedDivisionFails ==
  [][(IsProjectCreate(request') /\ TextOrEmpty(request'.data.division) \notin TwoDivisions)
       => (response'.status = 400 /\ project' = project)]_vars

\* C8 (amended): a creation whose division is not blank and, trimmed, is not
\* recognized is answered 400 and persists nothing; a missing or blank
\* division is read as Melbourne Power.
C8_UnrecognizedDivisionFails ==
  [][/\ (IsProjectCreate(request') /\ UnrecognizedDivision(request'.data))
          => (response'.status = 400 /\ project' = project)
     /\ (IsProjectCreate(request') /\ TextOrEmpty(request'.data.division) = <<>> /\ Created)
          => project'[Len(project')].division = MelbournePower]_vars

\* C8 witness: a division that is not recognized was refused, with a title.
C8_Witness ==
  /\ IsProjectCreate(request)
  /\ UnrecognizedDivision(request.data)
  /\ TextOrEmpty(request.data.title) # <<>>
  /\ response.status = 400

(***************************************************************************)
(* Properties of the time-entry handlers.                                  *)
(***************************************************************************)
IsEntryCreate(req) == req.endpoint = "api_entries" /\ req.method = "POST"

IsEntryUpdate(req) == req.endpoint = "api_entry_update" /\ req.method = "PUT"

Minutes(flag) == IF Truthy(flag) THEN 60 ELSE 0

\* C9: the entry a creation stores starts at the raw start, one hour earlier
\* when travel_morning is set, and ends at the raw end, one hour later when
\* travel_afternoon is set; its duration is the raw span plus one hour for
\* each flag that is set.
C9_TravelShiftOnCreate ==
  (IsEntryCreate(request) /\ response.status = 201) =>
    LET e == response.body.entry
        raw_start == parse_dt(request.data.start_time).t
        raw_end == parse_dt(request.data.end_time).t
        tm == request.data.travel_morning
        ta == request.data.travel_afternoon
    IN /\ e \in time_entry
       /\ e.start_time = raw_start - Minutes(tm)
       /\ e.end_time = raw_end + Minutes(ta)
       /\ e.travel_morning = Truthy(tm)
       /\ e.travel_afternoon = Truthy(ta)
       /\ response.body.duration_hours =
            <<(raw_end - raw_start + Minutes(tm) + Minutes(ta)) * 60, 3600>>

\* C9 witness: 06:00-14:30 with both flags is stored as 05:00-15:30, 10.5 hours.
C9_Witness ==
  /\ IsEntryCreate(request)
  /\ request.data.start_time = T0600
  /\ request.data.end_time = T1430
  /\ request.data.travel_morning = JBool(TRUE)
  /\ request.data.travel_afternoon = JBool(TRUE)
  /\ response.status = 201
  /\ \E e \in time_entry :
       /\ e.start_time = datetime(2024, 1, 2, 5, 0)
       /\ e.end_time = datetime(2024, 1, 2, 15, 30)
       /\ 2 * duration_hours(e)[1] = 21 * duration_hours(e)[2]

\* C10: every stored time entry ends strictly after it starts, so its
\* duration is positive.
C10_EndAfterStart ==
  \A e \in time_entry : e.end_time > e.start_time /\ duration_hours(e)[1] > 0

\* C10 witness: an update of an entry whose start has moved before 05:00 was
\* refused because its end would not come after its start.
C10_Witness ==
  /\ IsEntryUpdate(request)
  /\ response = Error(400, "End time must be after start time")
  /\ \E e \in time_entry : e.id = request.eid /\ e.start_time < datetime(2024, 1, 2, 5, 0)

\* The parsed start_time and end_time of a request body.
RawStart(req) == parse_dt(req.data.start_time)

RawEnd(req) == parse_dt(req.data.end_time)

\* A creation whose project_id and times parse.
IsParsedCreate(req) ==
  /\ IsEntryCreate(req)
  /\ py_int(req.data.project_id).ok
  /\ RawStart(req).ok
  /\ RawEnd(req).ok

\* C11 (as claimed): a creation whose raw end is at or before its raw start is
\* answered 400 whatever the two travel flags are, and stores no entry.
C11_RawEndNotAfterRawStartFails ==
  [][(IsParsedCreate(request') /\ RawEnd(request').t <= RawStart(request').t)
       => (response'.status = 400 /\ time_entry' = time_entry)]_vars

\* C12 (as claimed): a creation with raw start equal to raw end is answered
\* 201 with a stored span of exactly two hours when both travel flags are
\* true, and is answered 400, storing nothing, when exactly one of them is.
C12_EmptyRawSpan ==
  [][(IsParsedCreate(request') /\ RawEnd(request').t = RawStart(request').t)
       => LET tm == Truthy(request'.data.travel_morning)
              ta == Truthy(request'.data.travel_afternoon)
          IN /\ (tm /\ ta) =>
                  /\ response'.status = 201
                  /\ response'.body.entry \in time_entry'
                  /\ response'.body.entry.end_time - response'.body.entry.start_time = 120
             /\ (tm # ta) => (response'.status = 400 /\ time_entry' = time_entry)]_vars

\* An update that supplies both times.
SuppliesBothTimes(req) ==
  IsEntryUpdate(req) /\ has(req.data.start_time) /\ has(req.data.end_time)

\* C13 (as claimed): right after a creation, and right after an update that
\* supplies both times, the stored start plus one hour if travel_morning and
\* the stored end minus one hour if travel_afternoon are the raw start and end
\* of that request; and saving an entry of a listed project again from the
\* edit dialog, nothing edited, leaves the stored entry as it is.
C13_RawRoundTrip ==
  [][/\ ((IsEntryCreate(request') /\ response'.status = 201)
           \/ (SuppliesBothTimes(request') /\ response'.status = 200))
          => LET e == response'.body.entry
             IN /\ e \in time_entry'
                /\ e.start_time + (IF e.travel_morning THEN 60 ELSE 0) = RawStart(request').t
                /\ e.end_time - (IF e.travel_afternoon THEN 60 ELSE 0) = RawEnd(request').t
     /\ \A e \in time_entry :
          (/\ \E p \in Rows : p.id = e.project_id
           /\ IsEntryUpdate(request')
           /\ request'.eid = e.id
           /\ request'.data = openEditModal_body(e))
            => time_entry' = time_entry]_vars

\* The value a flag has once the flags of an update are applied.
FlagAfter(j, current) == IF has(j) THEN Truthy(j) ELSE current

\* The row an accepted update has just written, as a set.
Updated(req, resp) ==
  IF IsEntryUpdate(req) /\ resp.status = 200 THEN {resp.body.entry} ELSE {}

\* C14: an accepted update without start_time stores the start stored before,
\* one hour earlier when travel_morning is set once the flags of the request
\* are applied; an accepted update without end_time stores the end stored
\* before, one hour later when travel_afternoon is then set.
C14_UnsuppliedTimeShiftsStored ==
  [][\A old \in time_entry, new \in Updated(request', response') :
       old.id = new.id =>
         /\ new \in time_entry'
         /\ ~has(request'.data.start_time) =>
              new.start_time = old.start_time
                - (IF FlagAfter(request'.data.travel_morning, old.travel_morning) THEN 60 ELSE 0)
         /\ ~has(request'.data.end_time) =>
              new.end_time = old.end_time
                + (IF FlagAfter(request'.data.travel_afternoon, old.travel_afternoon) THEN 60 ELSE 0)]_vars

\* C14 witness: an update that supplies neither time nor flag has moved the
\* start of an entry created from 06:00 with travel_morning to 04:00, and its
\* end, created from 14:30 with travel_afternoon, to 16:30.
C14_Witness ==
  /\ IsEntryUpdate(request)
  /\ response.status = 200
  /\ ~has(request.data.start_time) /\ ~has(request.data.end_time)
  /\ ~has(request.data.travel_morning) /\ ~has(request.data.travel_afternoon)
  /\ \E e \in time_entry :
       /\ e.id = request.eid
       /\ e.travel_morning /\ e.travel_afternoon
       /\ e.start_time = datetime(2024, 1, 2, 4, 0)
       /\ e.end_time = datetime(2024, 1, 2, 16, 30)

\* The supplied project_id and times of an update parse, rs and re being its
\* parsed start_time and end_time.
SuppliedParse(req, rs, re) ==
  /\ has(req.data.start_time) => rs.ok
  /\ has(req.data.end_time) => re.ok
  /\ has(req.data.project_id) => py_int(req.data.project_id).ok

\* C15: an update of an entry that supplies raw times applies the flags of
\* the request first (a flag it does not carry keeps the value of the entry):
\* the start it would store is the supplied raw start, one hour earlier iff
\* travel_morning is then set, the end the supplied raw end, one hour later
\* iff travel_afternoon is then set (a time it does not supply is taken from
\* the entry, shifted the same way); it is answered 400, the entry unchanged,
\* iff that end is not after that start, and otherwise stores them.
C15_UpdateShiftsByResultingFlags ==
  [][(/\ IsEntryUpdate(request')
      /\ has(request'.data.start_time) \/ has(request'.data.end_time)) =>
       \A old \in {e \in time_entry : e.id = request'.eid},
          rs \in {RawStart(request')}, re \in {RawEnd(request')} :
         SuppliedParse(request', rs, re) =>
           \A tm \in {FlagAfter(request'.data.travel_morning, old.travel_morning)},
              ta \in {FlagAfter(request'.data.travel_afternoon, old.travel_afternoon)} :
             \A st \in {(IF has(request'.data.start_time) THEN rs.t ELSE old.start_time)
                          - (IF tm THEN 60 ELSE 0)},
                en \in {(IF has(request'.data.end_time) THEN re.t ELSE old.end_time)
                          + (IF ta THEN 60 ELSE 0)} :
               IF en <= st
                 THEN response'.status = 400 /\ time_entry' = time_entry
                 ELSE /\ response'.status = 200
                      /\ \E new \in time_entry' :
                           /\ new.id = old.id
                           /\ new.start_time = st /\ new.end_time = en
                           /\ new.travel_morning = tm /\ new.travel_afternoon = ta]_vars

\* C15 witness: an update that supplies 06:00-14:30 and sets travel_morning,
\* without a word on travel_afternoon, has stored 05:00-15:30: the new
\* morning flag and the afternoon flag the entry had.
C15_Witness ==
  /\ IsEntryUpdate(request)
  /\ request.data.start_time = T0600 /\ request.data.end_time = T1430
  /\ request.data.travel_morning = JBool(TRUE)
  /\ ~has(request.data.travel_afternoon)
  /\ response.status = 200
  /\ \E e \in time_entry :
       /\ e.id = request.eid
       /\ e.travel_morning /\ e.travel_afternoon
       /\ e.start_time = datetime(2024, 1, 2, 5, 0)
       /\ e.end_time = datetime(2024, 1, 2, 15, 30)

\* A supplied start_time or end_time that is no date-time.
UnparsableTime(req) ==
  \/ has(req.data.start_time) /\ ~RawStart(req).ok
  \/ has(req.data.end_time) /\ ~RawEnd(req).ok

\* C16 (as claimed): an update of an existing entry whose start_time or
\* end_time cannot be parsed is answered 400 and leaves the entries unchanged,
\* as a creation with such a value is.
C16_UnparsableTimeIs400 ==
  [][((IsEntryCreate(request') \/ (IsEntryUpdate(request') /\ entry_exists(request'.eid)))
        /\ UnparsableTime(request'))
       => (response'.status = 400 /\ time_entry' = time_entry)]_vars

(***************************************************************************)
(* Properties of updates, soft deletes and listings.                       *)
(***************************************************************************)
IsProjectUpdate(req) == req.endpoint = "api_project_update" /\ req.method = "PUT"

IsProjectDelete(req) == req.endpoint = "api_project_update" /\ req.method = "DELETE"

\* A listing of entries or an export that was answered.
IsEntryListing(req, resp) ==
  /\ req.endpoint \in {"api_entries", "api_export"}
  /\ req.method = "GET"
  /\ resp.status = 200

\* The rows of a listing (a set) or of an export (a sequence).
BodyRows(req, resp) ==
  IF req.endpoint = "api_export" THEN {resp.body[i] : i \in 1..Len(resp.body)}
  ELSE resp.body

\* The listing or export is asked for all entries or for those of project pid.
Covers(req, pid) == ~Truthy(req.project_id) \/ py_int(req.project_id).n = pid

\* The row of a listing or an export shows the entry with the prefix, title
\* and division of project p.
ShowsEntry(req, row, e, p) ==
  /\ IF req.endpoint = "api_entries" THEN row.entry = e ELSE row.entry_id = e.id
  /\ row.project_prefix = JInt(p.prefix)
  /\ row.project_title = JStr(p.title)
  /\ row.project_division = JStr(p.division)

\* C17: a soft delete of an existing project is answered 204, sets is_active
\* of that project to false and changes nothing else (so a second soft delete
\* changes nothing at all), no entry included; and every listing of entries
\* and every export shows each entry of a project, active or not, with the
\* prefix, title and division of the project.
C17_SoftDeleteKeepsEntries ==
  [][/\ (IsProjectDelete(request') /\ request'.pid \in 1..Len(project)) =>
          /\ response'.status = 204
          /\ project' = [project EXCEPT ![request'.pid].is_active = FALSE]
          /\ ~project[request'.pid].is_active => project' = project
          /\ time_entry' = time_entry
     /\ IsEntryListing(request', response') =>
          \A e \in time_entry', i \in 1..Len(project') :
            (e.project_id = project'[i].id /\ Covers(request', e.project_id))
              => \E row \in BodyRows(request', response') :
                   ShowsEntry(request', row, e, project'[i])]_vars

\* C17 witness: project 1 is soft-deleted and the listing of all entries
\* shows an entry of it with its prefix.
C17_Witness ==
  /\ IsEntryListing(request, response)
  /\ request.endpoint = "api_entries"
  /\ ~Truthy(request.project_id)
  /\ Len(project) >= 1
  /\ ~project[1].is_active
  /\ \E e \in time_entry, row \in BodyRows(request, response) :
       e.project_id = 1 /\ ShowsEntry(request, row, e, project[1])

\* C18: no request removes a project row or changes the id or the prefix of
\* one; the listing of projects shows every row; and an update of an existing
\* project whose body carries a prefix is answered 200 with the prefix the
\* project had.
C18_ProjectAndPrefixPermanent ==
  [][/\ Len(project') >= Len(project)
     /\ \A i \in 1..Len(project) :
          project'[i].id = project[i].id /\ project'[i].prefix = project[i].prefix
     /\ (request'.endpoint = "api_projects" /\ request'.method = "GET")
          => \A i \in 1..Len(project') : project'[i] \in response'.body
     /\ (/\ IsProjectUpdate(request')
         /\ request'.pid \in 1..Len(project)
         /\ request'.data.prefix # JNull)
          => /\ response'.status = 200
             /\ response'.body.prefix = project[request'.pid].prefix]_vars

\* C18 witness: an update of a soft-deleted project that carried prefix 1234
\* was answered 200, and the project holds another prefix.
C18_Witness ==
  /\ IsProjectUpdate(request)
  /\ request.data.prefix = JInt(1234)
  /\ response.status = 200
  /\ ~project[request.pid].is_active
  /\ project[request.pid].prefix # 1234

\* C19: an update of an existing project whose body carries a division that
\* is not one of the two is answered 400 and changes nothing; any other update
\* is answered 200, gives the project the trimmed title, the division and the
\* is_active of the body, each only when the body carries it, and leaves its
\* other fields, its id and prefix, the other projects and the entries as
\* they were.
C19_UpdateOnlySuppliedFields ==
  [][(IsProjectUpdate(request') /\ request'.pid \in 1..Len(project)) =>
       LET data == request'.data
           pid == request'.pid
       IN IF data.division # JNull /\ data.division.s \notin TwoDivisions
            THEN /\ response'.status = 400
                 /\ project' = project
                 /\ time_entry' = time_entry
            ELSE /\ response'.status = 200
                 /\ Len(project') = Len(project)
                 /\ \A i \in 1..Len(project) : i # pid => project'[i] = project[i]
                 /\ project'[pid].id = project[pid].id
                 /\ project'[pid].prefix = project[pid].prefix
                 /\ project'[pid].title =
                      (IF data.title # JNull THEN strip(data.title.s) ELSE project[pid].title)
                 /\ project'[pid].division =
                      (IF data.division # JNull THEN data.division.s ELSE project[pid].division)
                 /\ project'[pid].is_active =
                      (IF data.is_active # JNull THEN Truthy(data.is_active)
                       ELSE project[pid].is_active)
                 /\ time_entry' = time_entry]_vars

\* C19 witness: an update that carried a title alone was answered 200 for a
\* soft-deleted project moved to Melbourne Power, which is still both, next
\* to another project and an entry.
C19_Witness ==
  /\ IsProjectUpdate(request)
  /\ request.data = ProjectUpdate(TitleB, JNull, JNull, JNull)
  /\ response.status = 200
  /\ Len(project) = 2
  /\ time_entry # {}
  /\ project[request.pid].title = <<"B">>
  /\ ~project[request.pid].is_active
  /\ project[request.pid].division = MelbournePower

\* C20: an update or a soft delete of a project id that no project has, and
\* an update or a delete of an entry id that no entry has, is answered 404 and
\* changes no row.
C20_NotFoundChangesNothing ==
  [][/\ (request'.endpoint = "api_project_update"
           /\ \A i \in 1..Len(project) : project[i].id # request'.pid)
          => (response'.status = 404 /\ project' = project /\ time_entry' = time_entry)
     /\ (request'.endpoint = "api_entry_update"
           /\ \A e \in time_entry : e.id # request'.eid)
          => (response'.status = 404 /\ project' = project /\ time_entry' = time_entry)]_vars

\* C20 witness: an update of an entry id that no entry has was answered 404
\* while the tables hold an entry and a project.
C20_Witness ==
  /\ IsEntryUpdate(request)
  /\ \A e \in time_entry : e.id # request.eid
  /\ response.status = 404
  /\ time_entry # {}
  /\ Len(project) > 0

(***************************************************************************)
(* Properties of references, deletes, exports and sessions.                *)
(***************************************************************************)
\* The project id a creation, or an update that sets project_id, names, as a
\* set: empty when the request is neither or the id is no integer.
NamedProject(req) ==
  IF /\ IsEntryCreate(req) \/ (IsEntryUpdate(req) /\ has(req.data.project_id))
     /\ py_int(req.data.project_id).ok
    THEN {py_int(req.data.project_id).n}
    ELSE {}

\* C21 (as claimed): a creation of an entry, or an update of an existing
\* entry that sets project_id, whose project id no project has is answered 404
\* and stores nothing; every stored entry names a project that exists.
C21_UnknownProjectIs404 ==
  [][/\ \A pid \in NamedProject(request') :
          (/\ \A i \in 1..Len(project) : project[i].id # pid
           /\ IsEntryUpdate(request') => \E e \in time_entry : e.id = request'.eid)
            => (response'.status = 404 /\ time_entry' = time_entry)
     /\ \A e \in time_entry' : \E i \in 1..Len(project') : project'[i].id = e.project_id]_vars

IsEntryDelete(req) == req.endpoint = "api_entry_update" /\ req.method = "DELETE"

\* The id of the entry a row of a listing or of an export shows.
RowId(req, row) == IF req.endpoint = "api_entries" THEN row.entry.id ELSE row.entry_id

\* C22 (as claimed): a delete of an existing entry is answered 204 and
\* removes that entry and nothing else, no project changes; a delete or an
\* update of an id no entry has is answered 404; listings and exports show
\* stored entries only; and the id of a deleted entry stays without an entry,
\* so that every later update of it is answered 404: the creation that
\* follows the delete does not store an entry under that id.
C22_DeleteRemovesExactlyThat ==
  [][/\ IsEntryDelete(request') =>
          IF \E e \in time_entry : e.id = request'.eid
            THEN /\ response'.status = 204
                 /\ time_entry' = {e \in time_entry : e.id # request'.eid}
                 /\ project' = project
            ELSE response'.status = 404 /\ time_entry' = time_entry
     /\ (IsEntryUpdate(request') /\ \A e \in time_entry : e.id # request'.eid)
          => response'.status = 404
     /\ IsEntryListing(request', response') =>
          \A row \in BodyRows(request', response') :
            \E e \in time_entry' : e.id = RowId(request', row)
     /\ (/\ IsEntryDelete(request) /\ response.status = 204
         /\ IsEntryCreate(request') /\ response'.status = 201)
          => response'.body.entry.id # request.eid]_vars

\* An export that was answered.
IsExport(req, resp) == req.endpoint = "api_export" /\ resp.status = 200

\* The stored entries an export with the filter of req is asked for.
Matching(req) == {e \in time_entry : Covers(req, e.project_id)}

\* The rows of an export are those of the matching entries, one each, in
\* ascending order of stored start.
ExportsMatching(req, resp) ==
  /\ Len(resp.body) = Cardinality(Matching(req))
  /\ \A e \in Matching(req) :
       \E i \in 1..Len(resp.body) :
         /\ resp.body[i].entry_id = e.id
         /\ resp.body[i].start_time = e.start_time
         /\ resp.body[i].end_time = e.end_time
  /\ \A i \in 1..(Len(resp.body) - 1) : resp.body[i].start_time <= resp.body[i + 1].start_time

Commits(w) == pending[w].open /\ ~pending'[w].open

\* No two rows of the table carry the same prefix.
UniquePrefixes(rows) ==
  \A i \in 1..Len(rows) : \A j \in 1..Len(rows) : rows[i].prefix = rows[j].prefix => i = j

\* C24: of the creations with a custom prefix that passed the check of the
\* prefix, the one that commits while a row carries the prefix is refused by
\* the table and stores nothing, any other stores its row; no two rows ever
\* carry the same prefix.
C24_SameCustomPrefixCommitsOnce ==
  [][/\ \A w \in Workers :
          (Commits(w) /\ has_custom_prefix(pending[w].data)) =>
            IF \E i \in 1..Len(project) : project[i].prefix = pending[w].prefix
              THEN response'.status = 500 /\ project' = project
              ELSE /\ response'.status = 201
                   /\ Len(project') = Len(project) + 1
                   /\ project'[Len(project')].prefix = pending[w].prefix
     /\ UniquePrefixes(project')]_vars

\* C24 witness: the creation with the custom prefix 1500 passed the check of
\* the prefix, as the creation of the other worker did that stored the only
\* row, and was refused at its commit.
C24_Witness ==
  /\ request.endpoint = "api_projects"
  /\ request.method = "POST"
  /\ request.data.prefix = JInt(1500)
  /\ response = handle_exception("IntegrityError")
  /\ Len(project) = 1
  /\ project[1].prefix = 1500

\* C27: of the creations that let the server choose the prefix, the one
\* that commits while a row carries the prefix it read is answered with a
\* server error, not with a validation error, and stores nothing, any other
\* stores its row; no two rows ever carry the same prefix.
C27_SameAutoPrefixCommitsOnce ==
  [][/\ \A w \in Workers :
          (Commits(w) /\ ~has_custom_prefix(pending[w].data)) =>
            IF \E i \in 1..Len(project) : project[i].prefix = pending[w].prefix
              THEN response'.status = 500 /\ response'.status # 400 /\ project' = project
              ELSE /\ response'.status = 201
                   /\ Len(project') = Len(project) + 1
                   /\ project'[Len(project')].prefix = pending[w].prefix
     /\ UniquePrefixes(project')]_vars

\* C27 witness: two creations for Liquid Pack without a prefix both read
\* 2000 from the empty table; one stored the only row, the other was
\* answered with the server error.
C27_Witness ==
  /\ request.endpoint = "api_projects"
  /\ request.method = "POST"
  /\ request.data.prefix = JNull
  /\ request.data.division = JStr(LiquidPack)
  /\ response.status = 500
  /\ Len(project) = 1
  /\ project[1].prefix = 2000

\* The request came without a session.
WithoutSession(req) == "session" \in DOMAIN req /\ ~req.session

\* C25: a call of an API endpoint without a session is answered with a
\* client error (4xx), not with a redirect to the login form.
C25_ApiWithoutSessionIsClientError ==
  (request.endpoint \in ApiEndpoints /\ WithoutSession(request)) =>
    (response.status >= 400 /\ response.status < 500)

\* C26: the entry a creation stores carries the user of the session as its
\* creator; no step changes the creator of an entry; the update and the
\* delete of an entry by a user who did not create it are carried out, and
\* the update leaves the creator as it was.
C26_CreatorIsSessionUser ==
  [][/\ (IsEntryCreate(request') /\ response'.status = 201) =>
          /\ time_entry' # time_entry
          /\ \A e \in time_entry' \ time_entry : e.user_id = request'.user
     /\ \A e \in time_entry : \A f \in time_entry' : f.id = e.id => f.user_id = e.user_id
     /\ IsEntryUpdate(request') =>
          \A e \in time_entry :
            (e.id = request'.eid /\ e.user_id # request'.user) =>
              /\ response'.status = 200
              /\ \E f \in time_entry' : f.id = e.id /\ f.user_id = e.user_id
     /\ IsEntryDelete(request') =>
          \A e \in time_entry :
            (e.id = request'.eid /\ e.user_id # request'.user) =>
              (response'.status = 204 /\ \A f \in time_entry' : f.id # e.id)]_vars

\* C26 witness: user 1 has updated the notes of the entry that user 2
\* created, and the entry is still attributed to user 2.
C26_Witness ==
  /\ IsEntryUpdate(request)
  /\ request.user = 1
  /\ response.status = 200
  /\ \E e \in time_entry : e.id = request.eid /\ e.user_id = 2 /\ e.notes = Note.s

\* The update supplies neither a time nor a travel flag.
OnlyNotesOrProject(req) ==
  /\ IsEntryUpdate(req)
  /\ ~has(req.data.start_time) /\ ~has(req.data.end_time)
  /\ ~has(req.data.travel_morning) /\ ~has(req.data.travel_afternoon)

\* C28: an update that supplies only notes or a project leaves the stored
\* start, the stored end and both travel flags of the entry as they were.
C28_NotesOrProjectKeepTimes ==
  [][OnlyNotesOrProject(request') =>
       \A e \in time_entry : \A f \in time_entry' :
         f.id = e.id =>
           /\ f.start_time = e.start_time
           /\ f.end_time = e.end_time
           /\ f.travel_morning = e.travel_morning
           /\ f.travel_afternoon = e.travel_afternoon]_vars

\* C29: a request answered with 400 leaves every row of the projects and of
\* the entries as it was.
C29_RefusedChangesNothing ==
  [][response'.status = 400 => (project' = project /\ time_entry' = time_entry)]_vars

\* C29 witness: the update of an entry with another project, notes, both
\* flags and a reversed window was answered 400, and the entry still has its
\* project, no notes and no flags.
C29_Witness ==
  /\ IsEntryUpdate(request)
  /\ request.data = ReversedUpdate
  /\ response.status = 400
  /\ \E e \in time_entry :
       /\ e.id = request.eid
       /\ e.project_id = 1
       /\ e.notes = <<>>
       /\ ~e.travel_morning /\ ~e.travel_afternoon

\* C30: the title of every stored project is non-empty after trimming.
C30_TitlesNonBlank ==
  \A i \in 1..Len(project) : strip(project[i].title) # <<>>

====
